---- MODULE Spec2Model ----
(***************************************************************************)
(* A model of local_ss_plotting/make_plots.py: the two plotting helpers    *)
(* plot_bar_graph and plot.  One behaviour of the model is one call: Init  *)
(* binds the arguments, and each action is one block of the function body  *)
(* (validation, figure creation, one iteration of the series loop, the     *)
(* tick block, the axis-limit block and return).  The matplotlib / numpy   *)
(* calls are recorded with the arguments the code passes to them.          *)
(*                                                                         *)
(* Numbers.  barwidth, series_padding and xpadding are held in hundredths  *)
(* (35 is 0.35) and category_padding in hundredths too, so the product     *)
(* category_padding*barwidth comes out in ten-thousandths; every position  *)
(* on the categorical axis is held in ten-thousandths (7875 is 0.7875).    *)
(* The arithmetic is exact, where the code's is IEEE double.               *)
(*                                                                         *)
(* Arguments that are only handed on to the library (axis labels, title,   *)
(* font sizes, legend, savefile, show_plot, plot_yinvert, linewidth, axis  *)
(* scales and limits of plot) take no part in validation, layout or        *)
(* jitter and are left out.                                                *)
(***************************************************************************)
EXTENDS Integers, Sequences, FiniteSets, TLC

\* ------------------------------------------------------------- bounds
MaxSeries == 2      \* most series in one call
MaxCats == 2        \* most categories in one bar series
MaxPts == 2         \* most points in one (xvals, yvals) series

\* ------------------------------------------------------ Python values
\* An optional argument: Python's None, or a value.
None == [some |-> FALSE, val |-> <<>>]
Some(v) == [some |-> TRUE, val |-> v]
IsNone(o) == ~o.some

\* The element None of a list ([None for _ in series]).
PyNone == "<None>"

\* [v for _ in range(n)]
ListOf(n, v) == [i \in 1..n |-> v]

\* A quantity in hundredths as a position in ten-thousandths.
Pos(x) == x * 100

VARIABLES
    fn,      \* the function called: "plot_bar_graph" or "plot"
    args,    \* its arguments, as bound at call entry
    pc,      \* where the call is: entry, validated, loop, lims, returned, raised
    exc,     \* the exception the call raised, "none" while it has raised none
    msg,     \* that exception's message
    loc,     \* the local variables of the call
    fig,     \* whether plt.subplots() has created the figure
    drawn,   \* the drawing calls made so far, in order, with their arguments
    ticks,   \* the argument of set_xticks / set_yticks, None before the call
    lims     \* the argument of set_xlim / set_ylim, None before the call

vars == <<fn, args, pc, exc, msg, loc, fig, drawn, ticks, lims>>

\* ------------------------------------------------- validation helpers
Return(l) == [exc |-> "none", msg |-> "", loc |-> l]
Raise(e, m) == [exc |-> e, msg |-> m, loc |-> <<>>]

\* `series is None or len(series) == 0`
\* (the test without its `len(series) == 0` half)
NoDataSeries_OnlyNone(series) == IsNone(series)
NoDataSeries(series) == IsNone(series) \/ Len(series.val) = 0

\* `len(lst) != num_series`
\* (the test as `<` in place of `!=`)
LengthMismatch_Shorter(lst, num_series) == Len(lst) < num_series
LengthMismatch(lst, num_series) == Len(lst) # num_series

\* `if x is None: x = [v for _ in series]`
DefaultList(x, num_series, v) == IF IsNone(x) THEN ListOf(num_series, v) ELSE x.val

\* `series_use_labels and len(series[0]) > 1`
LabelsOnMultiCategory(a) == a.series_use_labels /\ Len(a.series.val[1]) > 1

\* The validation block of plot_bar_graph.
BarValidation(a) ==
    IF NoDataSeries(a.series) THEN Raise("ValueError", "No data series")
    ELSE LET num_series == Len(a.series.val) IN
    IF IsNone(a.series_colors)
    THEN Raise("TypeError", "object of type 'NoneType' has no len()")
    ELSE IF LengthMismatch(a.series_colors.val, num_series)
    THEN Raise("ValueError", "You must define a color for every series")
    ELSE LET series_labels == DefaultList(a.series_labels, num_series, PyNone) IN
    IF LengthMismatch(series_labels, num_series)
    THEN Raise("ValueError", "You must define a label for every series")
    ELSE LET series_errs == DefaultList(a.series_errs, num_series, PyNone) IN
    IF LengthMismatch(series_errs, num_series)
    THEN Raise("ValueError",
               "series_errs is not None. Must provide error value for every series.")
    ELSE LET series_err_colors == DefaultList(a.series_err_colors, num_series, "black") IN
    IF LengthMismatch(series_err_colors, num_series)
    THEN Raise("ValueError", "Must provide an error bar color for every series")
    ELSE LET series_color_emphasis ==
                 DefaultList(a.series_color_emphasis, num_series, "False") IN
    IF LengthMismatch(series_color_emphasis, num_series)
    THEN Raise("ValueError",
               "The emphasis list must be the same length as the series_colors list")
    ELSE IF LabelsOnMultiCategory(a)
    THEN Raise("ValueError", "Only series containing one category may be labeled.")
    ELSE Return([num_series |-> num_series,
                 series_labels |-> series_labels,
                 series_errs |-> series_errs,
                 series_err_colors |-> series_err_colors,
                 series_color_emphasis |-> series_color_emphasis,
                 series_style |-> DefaultList(a.series_style, num_series, "dict()")])

\* ------------------------------------------------------- bar layout
\* `spacing = category_padding*barwidth`
Spacing(a) == a.category_padding * a.barwidth

\* `category_width = spacing + num_series*barwidth`, `spacing+barwidth` if stacked
\* (the width without its `if stacked` reassignment)
CategoryWidth_NoStackedCase(a, num_series) == Spacing(a) + num_series * Pos(a.barwidth)
CategoryWidth(a, num_series) ==
    IF a.stacked THEN Spacing(a) + Pos(a.barwidth)
    ELSE Spacing(a) + num_series * Pos(a.barwidth)

\* `index = numpy.array(range(num_categories)) * category_width + xpadding`
Index(a, num_categories, category_width) ==
    [c \in 1..num_categories |-> (c - 1) * category_width + Pos(a.xpadding)]

\* `offset = idx * (barwidth + series_padding)`, 0 if stacked; idx counts from 0
Offset(a, idx) == IF a.stacked THEN 0 ELSE idx * Pos(a.barwidth + a.series_padding)

\* `index + offset`
Shift(index, offset) == [c \in 1..Len(index) |-> index[c] + offset]

\* The ticks of the tick block, as handed to set_xticks / set_yticks.
Ticks(a, l) ==
    IF a.series_use_labels
    THEN [i \in 1..l.num_series |->
            Pos(a.xpadding) + (i - 1) * Pos(a.barwidth + a.series_padding)
            + 50 * a.barwidth]
    ELSE IF a.category_ticks
    THEN IF ~a.stacked
         THEN Shift(l.index, 50 * l.num_series * a.barwidth)
         ELSE Shift(l.index, 50 * a.barwidth)
    ELSE <<>>

\* `lims`
Lims(a, l) ==
    << 0,
       2 * Pos(a.xpadding)
       + l.num_categories * (l.category_width + (l.num_series - 1) * Pos(a.series_padding))
       - l.spacing >>

\* ------------------------------------------------ plot_bar_graph steps
\* lines 61-93: the validation block
BarValidate ==
    /\ fn = "plot_bar_graph" /\ pc = "entry"
    /\ LET r == BarValidation(args) IN
         /\ exc' = r.exc
         /\ msg' = r.msg
         /\ loc' = r.loc
         /\ pc' = IF r.exc = "none" THEN "validated" ELSE "raised"
    /\ UNCHANGED <<fn, args, fig, drawn, ticks, lims>>

\* lines 95-106: the figure, and the layout scalars
BarCreateFigure ==
    /\ fn = "plot_bar_graph" /\ pc = "validated"
    /\ fig' = TRUE
    /\ LET num_categories == Len(args.series.val[1])
           category_width == CategoryWidth(args, loc.num_series)
       IN loc' = [num_series |-> loc.num_series,
                  series_labels |-> loc.series_labels,
                  series_errs |-> loc.series_errs,
                  series_err_colors |-> loc.series_err_colors,
                  series_color_emphasis |-> loc.series_color_emphasis,
                  series_style |-> loc.series_style,
                  spacing |-> Spacing(args),
                  num_categories |-> num_categories,
                  category_width |-> category_width,
                  index |-> Index(args, num_categories, category_width),
                  idx |-> 0]
    /\ pc' = "loop"
    /\ UNCHANGED <<fn, args, exc, msg, drawn, ticks, lims>>

\* The ax.bar / ax.barh call of iteration idx, with the arguments the code passes.
\* Neither call is given the bars' baseline (bar's `bottom`, barh's `left`), so
\* the library's default, 0, is the baseline of every bar.
BarCall(a, l) ==
    [prim |-> IF a.horizontal THEN "barh" ELSE "bar",
     series |-> l.idx + 1,
     position |-> Shift(l.index, Offset(a, l.idx)),
     thickness |-> Pos(a.barwidth),
     length |-> a.series.val[l.idx + 1],
     baseline |-> ListOf(Len(a.series.val[l.idx + 1]), 0),
     err |-> l.series_errs[l.idx + 1],
     label |-> l.series_labels[l.idx + 1]]

\* lines 108-138: one iteration of the series loop
BarDrawSeries ==
    /\ fn = "plot_bar_graph" /\ pc = "loop" /\ loc.idx < loc.num_series
    /\ \/ \* line 120: series_style[idx] of a list shorter than series
          /\ loc.idx + 1 > Len(loc.series_style)
          /\ exc' = "IndexError" /\ msg' = "list index out of range"
          /\ pc' = "raised"
          /\ UNCHANGED <<loc, drawn>>
       \/ \* the bars of series idx are drawn.  When the series' length is not
          \* num_categories the library either broadcasts or refuses (below).
          /\ loc.idx + 1 <= Len(loc.series_style)
          /\ drawn' = Append(drawn, BarCall(args, loc))
          /\ loc' = [loc EXCEPT !.idx = @ + 1]
          /\ UNCHANGED <<pc, exc, msg>>
       \/ \* the library refuses positions and values of different lengths
          /\ loc.idx + 1 <= Len(loc.series_style)
          /\ Len(args.series.val[loc.idx + 1]) # loc.num_categories
          /\ exc' = "ValueError" /\ msg' = "incompatible sizes"
          /\ pc' = "raised"
          /\ UNCHANGED <<loc, drawn>>
    /\ UNCHANGED <<fn, args, fig, ticks, lims>>

\* lines 140-182: labels, and the ticks of the categorical axis
BarSetTicks ==
    /\ fn = "plot_bar_graph" /\ pc = "loop" /\ loc.idx = loc.num_series
    /\ ticks' = Some(Ticks(args, loc))
    /\ pc' = "lims"
    /\ UNCHANGED <<fn, args, exc, msg, loc, fig, drawn, lims>>

\* lines 184-213: the axis limits, legend, output, and return
BarSetLimits ==
    /\ fn = "plot_bar_graph" /\ pc = "lims"
    /\ lims' = Some(Lims(args, loc))
    /\ pc' = "returned"
    /\ UNCHANGED <<fn, args, exc, msg, loc, fig, drawn, ticks>>

\* ------------------------------------------------------ plot: validation
\* The validation block of plot.
PlotValidation(a) ==
    IF NoDataSeries(a.series) THEN Raise("ValueError", "No data series")
    ELSE LET num_series == Len(a.series.val) IN
    IF IsNone(a.series_colors)
    THEN Raise("TypeError", "object of type 'NoneType' has no len()")
    ELSE IF LengthMismatch(a.series_colors.val, num_series)
    THEN Raise("ValueError", "You must define a color for every series")
    ELSE LET series_labels == DefaultList(a.series_labels, num_series, PyNone) IN
    IF LengthMismatch(series_labels, num_series)
    THEN Raise("ValueError", "You must define a label for every series")
    ELSE LET series_errs == DefaultList(a.series_errs, num_series, PyNone) IN
    IF LengthMismatch(series_errs, num_series)
    THEN Raise("ValueError",
               "series_errs is not None. Must provide error value for every series.")
    ELSE LET series_err_colors == DefaultList(a.series_err_colors, num_series, "black") IN
    IF LengthMismatch(series_err_colors, num_series)
    THEN Raise("ValueError", "Must provide an error bar color for every series")
    ELSE LET series_color_emphasis ==
                 DefaultList(a.series_color_emphasis, num_series, "False") IN
    IF LengthMismatch(series_color_emphasis, num_series)
    THEN Raise("ValueError",
               "The emphasis list must be the same length as the series_colors list")
    ELSE LET plot_markers == DefaultList(a.plot_markers, num_series, "None") IN
    IF LengthMismatch(plot_markers, num_series)
    THEN Raise("ValueError", "The marker list must contain all series")
    ELSE LET line_styles == DefaultList(a.line_styles, num_series, "-") IN
    IF LengthMismatch(line_styles, num_series)
    THEN Raise("ValueError", "The line style list must contain all series")
    ELSE Return([num_series |-> num_series,
                 series_labels |-> series_labels,
                 series_errs |-> series_errs,
                 series_err_colors |-> series_err_colors,
                 series_color_emphasis |-> series_color_emphasis,
                 plot_markers |-> plot_markers,
                 line_styles |-> line_styles,
                 idx |-> 0])

\* ---------------------------------------------------------- plot: jitter
\* Which coordinates the if / elif chain of the loop body resamples.
\* (the chain with each branch testing one argument only)
JitterCase_XTestOnly(jitter_x, jitter_y) ==
    IF jitter_x # -1 THEN [x |-> TRUE, y |-> FALSE]
    ELSE IF jitter_y # -1 THEN [x |-> FALSE, y |-> TRUE]
    ELSE [x |-> FALSE, y |-> FALSE]
JitterCase(jitter_x, jitter_y) ==
    IF jitter_x # -1 /\ jitter_y = -1 THEN [x |-> TRUE, y |-> FALSE]
    ELSE IF jitter_x = -1 /\ jitter_y # -1 THEN [x |-> FALSE, y |-> TRUE]
    ELSE IF jitter_x # -1 /\ jitter_y # -1 THEN [x |-> TRUE, y |-> TRUE]
    ELSE [x |-> FALSE, y |-> FALSE]

\* What one draw of numpy.random.normal(mean, scale) may differ from mean by:
\* nothing at scale 0, else some amount (two amounts stand for all of them).
Noise(scale) == IF scale = 0 THEN {0} ELSE {-1, 1}

\* numpy.random.normal(vals, scale, size=len(vals)): one draw per point.
Normal(vals, scale) ==
    {[i \in 1..Len(vals) |-> vals[i] + n[i]] : n \in [1..Len(vals) -> Noise(scale)]}

\* The ax.plot call of iteration idx.
PlotCall(l, xvals, yvals, case) ==
    [prim |-> "plot",
     series |-> l.idx + 1,
     x |-> xvals,
     y |-> yvals,
     xjit |-> case.x,
     yjit |-> case.y,
     label |-> l.series_labels[l.idx + 1],
     marker |-> l.plot_markers[l.idx + 1],
     linestyle |-> l.line_styles[l.idx + 1]]

\* The error rendering of iteration idx: a shaded band, or error bars.
ErrorCall(a, l, xvals, yvals) ==
    [prim |-> IF a.fill_error THEN "shaded_error" ELSE "errorbar",
     series |-> l.idx + 1,
     x |-> xvals,
     y |-> yvals,
     errs |-> l.series_errs[l.idx + 1]]

\* ------------------------------------------------------------ plot steps
\* lines 276-312: the validation block
PlotValidate ==
    /\ fn = "plot" /\ pc = "entry"
    /\ LET r == PlotValidation(args) IN
         /\ exc' = r.exc
         /\ msg' = r.msg
         /\ loc' = r.loc
         /\ pc' = IF r.exc = "none" THEN "validated" ELSE "raised"
    /\ UNCHANGED <<fn, args, fig, drawn, ticks, lims>>

\* lines 314-317: the figure
PlotCreateFigure ==
    /\ fn = "plot" /\ pc = "validated"
    /\ fig' = TRUE
    /\ pc' = "loop"
    /\ UNCHANGED <<fn, args, exc, msg, loc, drawn, ticks, lims>>

\* lines 318-353: one iteration of the series loop
PlotDrawSeries ==
    /\ fn = "plot" /\ pc = "loop" /\ loc.idx < loc.num_series
    /\ LET xvals == args.series.val[loc.idx + 1][1]
           yvals == args.series.val[loc.idx + 1][2]
           case == JitterCase(args.jitter_x, args.jitter_y)
       IN \/ \* numpy refuses a negative scale
             /\ \/ case.x /\ args.jitter_x < 0
                \/ case.y /\ args.jitter_y < 0
             /\ exc' = "ValueError" /\ msg' = "scale < 0"
             /\ pc' = "raised"
             /\ UNCHANGED <<loc, drawn>>
          \/ /\ case.x => args.jitter_x >= 0
             /\ case.y => args.jitter_y >= 0
             /\ \E xs \in IF case.x THEN Normal(xvals, args.jitter_x) ELSE {xvals},
                   ys \in IF case.y THEN Normal(yvals, args.jitter_y) ELSE {yvals} :
                  drawn' = drawn \o <<PlotCall(loc, xs, ys, case)>>
                           \o IF loc.series_errs[loc.idx + 1] # PyNone
                              THEN <<ErrorCall(args, loc, xs, ys)>>
                              ELSE <<>>
             /\ loc' = [loc EXCEPT !.idx = @ + 1]
             /\ UNCHANGED <<pc, exc, msg>>
    /\ UNCHANGED <<fn, args, fig, ticks, lims>>

\* lines 356-388: labels, limits, scales, legend, output, and return
PlotFinish ==
    /\ fn = "plot" /\ pc = "loop" /\ loc.idx = loc.num_series
    /\ pc' = "returned"
    /\ UNCHANGED <<fn, args, exc, msg, loc, fig, drawn, ticks, lims>>

\* ------------------------------------------------------------ inputs
\* Per-series attribute lists as a caller gives them: unset, or a list of
\* 1..MaxSeries elements (so both shorter and longer than series occur).
AttrLists(v) == {None} \cup {Some(ListOf(n, v)) : n \in 1..MaxSeries}

Values == {1, 2}
BarWidths == {20, 35}
CategoryPaddings == {0, 25}
SeriesPaddings == {0, 20}
XPaddings == {0, 10}

\* Bar series of one shape: n series of m categories each.
RegularSeries == UNION {[1..n -> [1..m -> Values]] : n \in 1..MaxSeries, m \in 1..MaxCats}
\* Bar series whose category counts may differ; the value of category c is c.
RaggedSeries ==
    UNION {{[i \in 1..n |-> [c \in 1..m[i] |-> c]] : m \in [1..n -> 1..MaxCats]}
           : n \in 1..MaxSeries}

\* Calls of plot_bar_graph that vary what validation reads, at the default layout.
BarValidationCalls ==
    [series : {None, Some(<<>>)} \cup {Some(s) : s \in RaggedSeries},
     series_colors : AttrLists("red"),
     series_labels : AttrLists("label"),
     series_color_emphasis : AttrLists("True"),
     series_errs : AttrLists("errs"),
     series_err_colors : AttrLists("gray"),
     series_style : AttrLists("dict(alpha=1)"),
     series_use_labels : BOOLEAN,
     series_padding : {0}, category_ticks : {TRUE}, category_padding : {25},
     barwidth : {35}, xpadding : {0}, stacked : {FALSE}, horizontal : {FALSE}]

\* Calls of plot_bar_graph that vary the layout, with only series_colors given.
BarLayoutCalls ==
    {a \in [series : {Some(s) : s \in RegularSeries},
            series_colors : {Some(ListOf(n, "red")) : n \in 1..MaxSeries},
            series_labels : {None}, series_color_emphasis : {None},
            series_errs : {None}, series_err_colors : {None}, series_style : {None},
            series_use_labels : BOOLEAN,
            series_padding : SeriesPaddings,
            category_ticks : BOOLEAN,
            category_padding : CategoryPaddings,
            barwidth : BarWidths,
            xpadding : XPaddings,
            stacked : BOOLEAN,
            horizontal : BOOLEAN] :
        Len(a.series_colors.val) = Len(a.series.val)}

InitBar ==
    /\ fn = "plot_bar_graph"
    /\ args \in BarValidationCalls \cup BarLayoutCalls

Jitters == {-2, -1, 0, 1}

\* One (xvals, yvals) series of n points.
PlotData(n) == <<[i \in 1..n |-> i], [i \in 1..n |-> 10 + i]>>
PlotSeries ==
    UNION {{[i \in 1..n |-> PlotData(m[i])] : m \in [1..n -> 1..MaxPts]}
           : n \in 1..MaxSeries}

\* Calls of plot that vary what validation and error rendering read, unjittered.
PlotValidationCalls ==
    [series : {None, Some(<<>>)}
              \cup {Some(ListOf(n, PlotData(MaxPts))) : n \in 1..MaxSeries},
     series_colors : AttrLists("red"),
     series_labels : AttrLists("label"),
     series_color_emphasis : AttrLists("True"),
     series_errs : AttrLists("errs"),
     series_err_colors : AttrLists("gray"),
     plot_markers : AttrLists("o"),
     line_styles : AttrLists("--"),
     fill_error : BOOLEAN,
     jitter_x : {-1}, jitter_y : {-1}]

\* Calls of plot that vary the data and the jitter, with only series_colors given.
PlotJitterCalls ==
    {a \in [series : {Some(s) : s \in PlotSeries},
            series_colors : {Some(ListOf(n, "red")) : n \in 1..MaxSeries},
            series_labels : {None}, series_color_emphasis : {None},
            series_errs : {None}, series_err_colors : {None},
            plot_markers : {None}, line_styles : {None},
            fill_error : {TRUE},
            jitter_x : Jitters, jitter_y : Jitters] :
        Len(a.series_colors.val) = Len(a.series.val)}

InitPlot ==
    /\ fn = "plot"
    /\ args \in PlotValidationCalls \cup PlotJitterCalls

Init ==
    /\ (InitBar \/ InitPlot)
    /\ pc = "entry"
    /\ exc = "none"
    /\ msg = ""
    /\ loc = <<>>
    /\ fig = FALSE
    /\ drawn = <<>>
    /\ ticks = None
    /\ lims = None

Next ==
    \/ BarValidate
    \/ BarCreateFigure
    \/ BarDrawSeries
    \/ BarSetTicks
    \/ BarSetLimits
    \/ PlotValidate
    \/ PlotCreateFigure
    \/ PlotDrawSeries
    \/ PlotFinish

Spec == Init /\ [][Next]_vars

\* ------------------------------------------------------------ properties
Series == args.series.val
NonEmptySeries == args.series.some /\ Len(args.series.val) > 0
Validated == pc \notin {"entry", "raised"}

\* The per-series attribute lists validation measures against len(series).
AttrNames ==
    IF fn = "plot"
    THEN {"series_colors", "series_labels", "series_errs", "series_err_colors",
          "series_color_emphasis", "plot_markers", "line_styles"}
    ELSE {"series_colors", "series_labels", "series_errs", "series_err_colors",
          "series_color_emphasis"}

\* The messages of the ValueErrors raised for a list of the wrong length.
LengthMessages ==
    {"You must define a color for every series",
     "You must define a label for every series",
     "series_errs is not None. Must provide error value for every series.",
     "Must provide an error bar color for every series",
     "The emphasis list must be the same length as the series_colors list",
     "The marker list must contain all series",
     "The line style list must contain all series"}

\* Some attribute list that was given has not the length of series.
SomeListMismatched ==
    \E k \in AttrNames : args[k].some /\ Len(args[k].val) # Len(Series)

\* Every bar series has as many categories as the first one.
SameCategoryCounts == \A i \in 1..Len(Series) : Len(Series[i]) = Len(Series[1])

\* f[1] + ... + f[n]
RECURSIVE SumTo(_, _)
SumTo(f, n) == IF n = 0 THEN 0 ELSE f[n] + SumTo(f, n - 1)

\* The left edge of the first bar, and the right edge of the last bar, of category c.
GroupLeft(c) == drawn[1].position[c]
GroupRight(c) == drawn[Len(drawn)].position[c] + drawn[Len(drawn)].thickness

\* C1: every call of plot_bar_graph or plot that ends in an error raises it at
\* call entry, before any rendering: no call fails after a drawing call
\* (bar, barh, plot, shaded_error, errorbar) was made.
C1_NoFailureAfterDrawing ==
    pc = "raised" => drawn = <<>>

\* C2 as stated: with a non-empty series list, a given attribute list of the
\* wrong length makes the call fail with the ValueError of a length mismatch
\* before any drawing, and without one no attribute list makes the call fail:
\* the unset ones are replaced by lists of len(series) elements.
C2_Original ==
    (NonEmptySeries /\ pc # "entry") =>
        /\ SomeListMismatched =>
              /\ pc = "raised" /\ exc = "ValueError" /\ msg \in LengthMessages
              /\ ~fig /\ drawn = <<>>
        /\ ~SomeListMismatched =>
              /\ exc # "TypeError" /\ msg \notin LengthMessages
              /\ Validated =>
                    \A k \in AttrNames \ {"series_colors"} : Len(loc[k]) = Len(Series)

\* C2 as amended: the same for every call that gives series_colors, which has
\* no default; series_colors passed as None fails with a TypeError, before any
\* drawing.
C2_LengthMismatchRaises ==
    (NonEmptySeries /\ pc # "entry") =>
        /\ args.series_colors.some => C2_Original
        /\ ~args.series_colors.some =>
              pc = "raised" /\ exc = "TypeError" /\ ~fig /\ drawn = <<>>

\* C2's case: plot refused a marker list of the wrong length, after the unset
\* series_labels got its default.
C2_Witness ==
    /\ fn = "plot" /\ pc = "raised"
    /\ msg = "The marker list must contain all series"
    /\ IsNone(args.series_labels)
    /\ Len(args.plot_markers.val) > Len(Series)

\* C3: plot_bar_graph with series_use_labels, a series of more than one
\* category (any series), and otherwise valid lists fails with a ValueError
\* before any rendering.
C3_LabelsRefusedOnAnyMultiCategorySeries ==
    ( /\ fn = "plot_bar_graph" /\ pc # "entry" /\ NonEmptySeries
      /\ args.series_use_labels
      /\ \E i \in 1..Len(Series) : Len(Series[i]) > 1
      /\ args.series_colors.some /\ ~SomeListMismatched )
    => (pc = "raised" /\ exc = "ValueError" /\ ~fig /\ drawn = <<>>)

\* C4: when plot_bar_graph places category ticks (category_ticks, no
\* series_use_labels) for series of equal category counts, there is one tick per
\* category, at the midpoint between the left edge of the category's first bar
\* and the right edge of its last bar.
C4_TicksAtGroupMidpoints ==
    ( /\ fn = "plot_bar_graph" /\ pc \in {"lims", "returned"}
      /\ SameCategoryCounts /\ args.category_ticks /\ ~args.series_use_labels )
    => /\ Len(ticks.val) = loc.num_categories
       /\ \A c \in 1..Len(ticks.val) : 2 * ticks.val[c] = GroupLeft(c) + GroupRight(c)

\* C5: when plot_bar_graph returns, the first bar starts xpadding above the
\* lower axis limit and the last bar of the last category ends xpadding below
\* the upper one.
C5_XPaddingOnBothSides ==
    (fn = "plot_bar_graph" /\ pc = "returned" /\ SameCategoryCounts)
    => /\ GroupLeft(1) - lims.val[1] = 100 * args.xpadding
       /\ lims.val[2] - GroupRight(loc.num_categories) = 100 * args.xpadding

\* C6: with stacked=True every series' bars of a category share one position,
\* and the bar of series i starts at the sum of the values of series 0..i-1 in
\* that category.
C6_StackedBarsStartWherePrecedingEnd ==
    (fn = "plot_bar_graph" /\ Validated /\ args.stacked /\ SameCategoryCounts)
    => \A k \in 1..Len(drawn) : \A c \in 1..Len(drawn[k].position) :
          /\ drawn[k].position[c] = drawn[1].position[c]
          /\ drawn[k].baseline[c] = SumTo([j \in 1..(k - 1) |-> Series[j][c]], k - 1)

\* C7: the layout of plot_bar_graph is the reference arithmetic: spacing p*w,
\* category width p*w + N*w (p*w + w when stacked), and the bar of series i in
\* category c at c*category_width + xpadding + i*(w + s) (no i term when stacked).
C7_LayoutMatchesReference ==
    (fn = "plot_bar_graph" /\ pc \in {"loop", "lims", "returned"})
    => LET N == Len(Series)
           w == 100 * args.barwidth
           refSpacing == args.category_padding * args.barwidth
           refWidth == IF args.stacked THEN refSpacing + w ELSE refSpacing + N * w
       IN /\ loc.spacing = refSpacing
          /\ loc.category_width = refWidth
          /\ \A k \in 1..Len(drawn) : \A c \in 1..Len(drawn[k].position) :
                drawn[k].position[c] =
                    (c - 1) * refWidth + 100 * args.xpadding
                    + IF args.stacked THEN 0
                      ELSE (k - 1) * (w + 100 * args.series_padding)

\* C7's case: N=2, w=0.35, p=0.25 grouped gives spacing 0.0875, category width
\* 0.7875 and base indices 0.0 and 0.7875, and both series are drawn.
C7_Witness ==
    /\ fn = "plot_bar_graph" /\ pc = "returned"
    /\ Len(Series) = 2 /\ args.barwidth = 35 /\ args.category_padding = 25
    /\ args.xpadding = 0 /\ ~args.stacked /\ args.series_padding = 20
    /\ loc.spacing = 875 /\ loc.category_width = 7875
    /\ loc.index = <<0, 7875>>
    /\ Len(drawn) = 2 /\ drawn[2].position = <<5500, 13375>>

\* C8: every ax.plot call of one call of plot gets resampled x exactly when
\* jitter_x != -1 and resampled y exactly when jitter_y != -1; coordinates that
\* are not resampled are the series' own, and with a positive scale the
\* resampled ones differ from them.
C8_JitterDecidedByArguments ==
    fn = "plot" =>
        \A k \in 1..Len(drawn) :
            drawn[k].prim = "plot" =>
                LET xvals == Series[drawn[k].series][1]
                    yvals == Series[drawn[k].series][2]
                IN /\ drawn[k].xjit = (args.jitter_x # -1)
                   /\ drawn[k].yjit = (args.jitter_y # -1)
                   /\ args.jitter_x = -1 => drawn[k].x = xvals
                   /\ args.jitter_y = -1 => drawn[k].y = yvals
                   /\ args.jitter_x > 0 => drawn[k].x # xvals
                   /\ args.jitter_y > 0 => drawn[k].y # yvals

\* C8's case: two series drawn with x jittered and y not.
C8_Witness ==
    /\ fn = "plot" /\ pc = "returned"
    /\ args.jitter_x = 1 /\ args.jitter_y = -1
    /\ Len(drawn) = 2
    /\ \A k \in 1..2 : /\ drawn[k].x # Series[k][1]
                       /\ drawn[k].y = Series[k][2]

\* C9: with series None or empty both functions fail with the ValueError
\* 'No data series', whatever the other arguments, before the figure is created
\* and before any drawing.
C9_EmptySeriesRaisesFirst ==
    (~NonEmptySeries /\ pc # "entry")
    => /\ pc = "raised" /\ exc = "ValueError" /\ msg = "No data series"
       /\ ~fig /\ drawn = <<>>

\* C9's case: an empty series list with series_colors unset.
C9_Witness ==
    /\ pc = "raised" /\ args.series.some /\ Len(Series) = 0
    /\ IsNone(args.series_colors)

\* C10: in grouped layout no two bars overlap, and when the call returns every
\* bar lies within the axis limits.
C10_GroupedBarsDisjoint ==
    (fn = "plot_bar_graph" /\ Validated /\ ~args.stacked /\ SameCategoryCounts)
    => /\ \A k1, k2 \in 1..Len(drawn) :
            \A c1 \in 1..Len(drawn[k1].position), c2 \in 1..Len(drawn[k2].position) :
                <<k1, c1>> # <<k2, c2>> =>
                    \/ drawn[k1].position[c1] + drawn[k1].thickness
                           <= drawn[k2].position[c2]
                    \/ drawn[k2].position[c2] + drawn[k2].thickness
                           <= drawn[k1].position[c1]
       /\ pc = "returned" =>
            \A k \in 1..Len(drawn) : \A c \in 1..Len(drawn[k].position) :
                /\ lims.val[1] <= drawn[k].position[c]
                /\ drawn[k].position[c] + drawn[k].thickness <= lims.val[2]

====
